---------------------------- MODULE Spec2Model ----------------------------
(***************************************************************************)
(* The Kuhhandel game session and its auction state machine                *)
(* (src/engine/game_state.py) over the deck and the player ledger          *)
(* (src/engine/models.py).                                                 *)
(*                                                                         *)
(* Every public operation of Game is one action that models the whole      *)
(* call: the checks in the order the code makes them, the exception the    *)
(* first failing check raises, and the assignments of the accepted path.   *)
(* A call that raises is a step too: it records the call and the exception *)
(* and leaves the game state as the code leaves it.                        *)
(*                                                                         *)
(* Optional[T] is modelled as a sequence of length 0 (None) or 1.          *)
(***************************************************************************)
EXTENDS Integers, Sequences, FiniteSets, TLC

---------------------------------------------------------------------------
(* Program constants *)

MIN_PLAYERS == 3
MAX_PLAYERS == 5
CARDS_PER_ANIMAL == 4

\* The members of enum AnimalType, in declaration order.
AnimalType ==
    << "Rooster", "Goose", "Cat", "Dog", "Sheep",
       "Goat", "Donkey", "Pig", "Cow", "Horse" >>

\* The seven money cards every player starts with: 2 x 0, 4 x 10, 1 x 50.
STARTING_MONEY == << 0, 0, 10, 10, 10, 10, 50 >>

\* enum GamePhase
TURN_START == "TURN_START"
AUCTION_BIDDING == "AUCTION_BIDDING"
AUCTION_WON == "AUCTION_WON"
GamePhase == { TURN_START, AUCTION_BIDDING, AUCTION_WON }

---------------------------------------------------------------------------
(* Bounds of the model *)

\* random.shuffle is modelled by the cuts of the pile by 0..MaxShuffle cards.
MaxShuffle == 1

\* deal_starting_money is called at most MaxDeals times.
MaxDeals == 2

\* The amounts offered to process_bid are the multiples of 5 from -10 to
\* 5 * MaxAmountSteps.
MaxAmountSteps == 4

\* The orchestrator hands add_money and remove_money lists of 1..MaxCards
\* cards, and adds no card to a hand of MaxHand cards.
MaxCards == 2
MaxHand == 3

\* The rosters handed to Game(...) have 0..MaxRoster entries.
MaxRoster == 6

\* A deck driven on its own is shuffled only within its first
\* MaxShuffleWindow draws or with at most MaxShuffleWindow + 1 cards left.
MaxShuffleWindow == 1

---------------------------------------------------------------------------
(* Values *)

None == << >>
Some(x) == << x >>

\* The exceptions the operations raise, by type and message.
NoError == "None"
ErrWrongPhase == "RuntimeError: Cannot draw: phase is not TURN_START"
ErrDeckEmpty == "RuntimeError: Cannot draw: deck is empty"
ErrNoActiveAuction == "RuntimeError: No active auction"
ErrNotActiveBidder == "ValueError: Player is not an active bidder"
ErrNotMultipleOf10 == "ValueError: Bid is not a multiple of 10"
ErrNotHigher == "ValueError: Bid must be strictly higher than current bid"
ErrNotInList == "ValueError: list.remove(x): x not in list"
ErrPlayerCount(n) ==
    "ValueError: Kuhhandel requires 3-5 players, got " \o ToString(n)

\* The inputs the orchestrator passes.
PlayerInputs == 0 .. MAX_PLAYERS
Amounts == { 5 * k : k \in (-2) .. MaxAmountSteps }

\* The rosters handed to Game(...): of every size 0..MaxRoster, made of
\* distinct Player objects or with one object at two indices.
PlayerObjects == 1 .. MaxRoster
DistinctRoster(n) == [ i \in 1 .. n |-> i ]
Rosters ==
    { DistinctRoster(n) : n \in 0 .. MaxRoster }
    \cup UNION { UNION { { [ DistinctRoster(n) EXCEPT ![j] = i ] :
                              i \in 1 .. (j - 1) } :
                          j \in 2 .. n } :
                  n \in 2 .. MaxRoster }

\* The lists of money cards (by denomination) handed to a Player's ledger.
MoneyInputs == { 10, 50 }
CardLists == UNION { [ 1 .. k -> MoneyInputs ] : k \in 1 .. MaxCards }

---------------------------------------------------------------------------
(* State *)

VARIABLES
    deck,             \* Game.deck._cards: the draw pile, top card last
    players,          \* Game.players: the roster, a list of Player references
    money,            \* Player.money of every Player object
    current_turn,     \* Game.current_turn
    phase,            \* Game.phase
    current_auction,  \* Game.current_auction: Optional[AuctionState]
    call,             \* the last call made: its name and player index
    raised,           \* the exception the last call raised, or NoError
    returned,         \* the value the last call returned (Optional)
    drawn_cards       \* history: the cards Deck.draw has returned so far

gameVars == << deck, players, money, current_turn, phase, current_auction >>
vars == << deck, players, money, current_turn, phase, current_auction,
           call, raised, returned, drawn_cards >>

---------------------------------------------------------------------------
(* Lists *)

\* x in list
In(x, list) == \E i \in 1 .. Len(list) : list[i] = x

\* list.remove(x): the list without the first occurrence of x.
Remove(list, x) ==
    LET first == CHOOSE i \in 1 .. Len(list) :
                     /\ list[i] = x
                     /\ \A j \in 1 .. (i - 1) : list[j] # x
    IN  [ k \in 1 .. (Len(list) - 1) |->
            IF k < first THEN list[k] ELSE list[k + 1] ]

\* list.pop(): the list without its last element.
Pop(list) == SubSeq(list, 1, Len(list) - 1)

Rotate(list, k) ==
    [ i \in 1 .. Len(list) |-> list[((i - 1 + k) % Len(list)) + 1] ]

---------------------------------------------------------------------------
(* Deck *)

\* Deck.__init__: CARDS_PER_ANIMAL cards of every animal type, type by type.
NewDeck ==
    [ i \in 1 .. (Len(AnimalType) * CARDS_PER_ANIMAL) |->
        AnimalType[((i - 1) \div CARDS_PER_ANIMAL) + 1] ]

\* Deck.shuffle: the orders random.shuffle may leave the pile in.
\* Faulty variant: the reordering writes the last card over the first.
ShuffleOverwrites(cards) ==
    IF cards = << >> THEN { cards }
    ELSE { [ Rotate(cards, k) EXCEPT ![1] = cards[Len(cards)] ] :
              k \in 0 .. MaxShuffle }

\* As coded: a reordering in place.
Shuffle(cards) ==
    IF cards = << >> THEN { cards }
    ELSE { Rotate(cards, k) : k \in 0 .. MaxShuffle }

\* Deck.remaining
Remaining == Len(deck)

---------------------------------------------------------------------------
(* Auction record *)

\* AuctionState(card, auctioneer_index, active_bidders) with the dataclass
\* defaults highest_bid = 0 and highest_bidder_index = None.
\* Faulty variant: the auctioneer is recorded by seat number, from 1.
AuctionStateSeatNumber(card, auctioneer_index, active_bidders) ==
    [ card |-> card,
      auctioneer_index |-> auctioneer_index + 1,
      highest_bid |-> 0,
      highest_bidder_index |-> None,
      active_bidders |-> active_bidders ]

\* As coded.
AuctionState(card, auctioneer_index, active_bidders) ==
    [ card |-> card,
      auctioneer_index |-> auctioneer_index,
      highest_bid |-> 0,
      highest_bidder_index |-> None,
      active_bidders |-> active_bidders ]

\* The auction held by current_auction, when there is one.
Auction == current_auction[1]

---------------------------------------------------------------------------
(* Calls *)

\* A call is recorded by its name and the player index it was given
\* (None for the calls that take no player index).
Call(op, player_index) == [ op |-> op, player_index |-> player_index ]

\* raise: the call ends with exception e, having assigned nothing.
Raise(e) ==
    /\ raised' = e
    /\ returned' = None
    /\ UNCHANGED gameVars

\* return value: the call ends normally.
Return(value) ==
    /\ raised' = NoError
    /\ returned' = value

---------------------------------------------------------------------------
(* Game *)

\* Game.__init__ with a roster of MIN_PLAYERS..MAX_PLAYERS distinct players.
Init ==
    /\ \E n \in MIN_PLAYERS .. MAX_PLAYERS :
          /\ players = [ i \in 1 .. n |-> i ]
          /\ money = [ p \in 1 .. n |-> << >> ]
    /\ deck \in Shuffle(NewDeck)
    /\ current_turn = 0
    /\ phase = TURN_START
    /\ current_auction = None
    /\ call = Call("__init__", None)
    /\ raised = NoError
    /\ returned = None
    /\ drawn_cards = << >>

\* Before Game(...) has returned there is no Game object: the phase holds
\* NoGame and the other attributes are unset (typed placeholders).
NoGame == "NoGame"
Constructed == phase # NoGame

\* Game.__init__'s check of the roster size.
\* Faulty variant: only the lower limit is checked.
RosterSizeNoUpperLimit(n) == MIN_PLAYERS <= n

\* As coded: MIN_PLAYERS <= len(players) <= MAX_PLAYERS.
RosterSizeOk(n) == MIN_PLAYERS <= n /\ n <= MAX_PLAYERS

\* Game(roster): the constructor call, on Player objects that exist already.
NewGame(roster) ==
    /\ ~ Constructed
    /\ call' = Call("__init__", None)
    /\ drawn_cards' = drawn_cards
    /\ IF ~ RosterSizeOk(Len(roster))
       THEN Raise(ErrPlayerCount(Len(roster)))
       ELSE /\ deck' \in Shuffle(NewDeck)
            /\ players' = roster
            /\ current_turn' = 0
            /\ phase' = TURN_START
            /\ current_auction' = None
            /\ Return(None)
            /\ UNCHANGED money

\* Player.add_money
add_money(hand, cards) == hand \o cards

\* Player.total_money: the sum of the amounts of the cards in the hand.
RECURSIVE total_money(_)
total_money(hand) ==
    IF hand = << >> THEN 0 ELSE Head(hand) + total_money(Tail(hand))

\* for player in self.players: player.add_money(STARTING_MONEY cards),
\* from roster position i on.
RECURSIVE DealLoop(_, _)
DealLoop(hands, i) ==
    IF i > Len(players) THEN hands
    ELSE DealLoop([ hands EXCEPT
                      ![players[i]] = add_money(@, STARTING_MONEY) ], i + 1)

\* Game.deal_starting_money
DealStartingMoney ==
    /\ \A i \in 1 .. Len(players) :
          Len(money[players[i]]) < Len(STARTING_MONEY) * MaxDeals
    /\ call' = Call("deal_starting_money", None)
    /\ money' = DealLoop(money, 1)
    /\ Return(None)
    /\ UNCHANGED << deck, players, current_turn, phase, current_auction,
                    drawn_cards >>

\* Deck.draw: the card returned (Optional) and the pile left.
\* Faulty variant: the card is taken from the bottom of the pile.
DrawBottom(cards) ==
    IF cards = << >>
    THEN [ card |-> None, cards |-> cards ]
    ELSE [ card |-> Some(cards[1]), cards |-> SubSeq(cards, 2, Len(cards)) ]

\* Faulty variant: the top card is returned but left on the pile.
DrawPeeks(cards) ==
    IF cards = << >>
    THEN [ card |-> None, cards |-> cards ]
    ELSE [ card |-> Some(cards[Len(cards)]), cards |-> cards ]

\* As coded: pop() takes the last card.
Draw(cards) ==
    IF cards = << >>
    THEN [ card |-> None, cards |-> cards ]
    ELSE [ card |-> Some(cards[Len(cards)]), cards |-> Pop(cards) ]

\* draw_for_auction's phase check: the phase does not allow a draw.
\* Faulty variant: only an open auction forbids the draw.
CannotDrawOnlyWhileBidding == phase = AUCTION_BIDDING

\* As coded: self.phase is not GamePhase.TURN_START.
CannotDraw == phase # TURN_START

\* draw_for_auction's bidders: every roster index but the turn player's,
\* in the order of range(len(players)).
\* Faulty variant: the turn player is not filtered out.
BiddersWithAuctioneer == [ i \in 1 .. Len(players) |-> i - 1 ]

\* Faulty variant: the indices are collected from the last to the first.
BiddersDescending ==
    SelectSeq([ i \in 1 .. Len(players) |-> Len(players) - i ],
              LAMBDA i : i # current_turn)

\* As coded: if i != self.current_turn.
Bidders ==
    SelectSeq([ i \in 1 .. Len(players) |-> i - 1 ],
              LAMBDA i : i # current_turn)

\* draw_for_auction opening the auction on the drawn card: the auction
\* record and the phase.
\* Faulty variant: the phase is not advanced.
OpenAuctionKeepsPhase(card) ==
    /\ current_auction' = Some(AuctionState(card, current_turn, Bidders))
    /\ phase' = phase

\* As coded.
OpenAuction(card) ==
    /\ current_auction' = Some(AuctionState(card, current_turn, Bidders))
    /\ phase' = AUCTION_BIDDING

\* Game.draw_for_auction
\* Faulty variant: the phase is advanced before the drawn card is checked.
DrawForAuctionPhaseFirst ==
    /\ call' = Call("draw_for_auction", None)
    /\ drawn_cards' =
          IF CannotDraw THEN drawn_cards ELSE drawn_cards \o Draw(deck).card
    /\ IF CannotDraw
       THEN Raise(ErrWrongPhase)
       ELSE LET drawn == Draw(deck)
            IN  IF drawn.card = None
                THEN /\ phase' = AUCTION_BIDDING
                     /\ raised' = ErrDeckEmpty
                     /\ returned' = None
                     /\ UNCHANGED << deck, players, money, current_turn,
                                     current_auction >>
                ELSE /\ deck' = drawn.cards
                     /\ OpenAuction(drawn.card[1])
                     /\ Return(drawn.card)
                     /\ UNCHANGED << players, money, current_turn >>

\* As coded.
DrawForAuction ==
    /\ call' = Call("draw_for_auction", None)
    /\ drawn_cards' =
          IF CannotDraw THEN drawn_cards ELSE drawn_cards \o Draw(deck).card
    /\ IF CannotDraw
       THEN Raise(ErrWrongPhase)
       ELSE LET drawn == Draw(deck)
            IN  IF drawn.card = None
                THEN \* deck.draw() left the empty pile as it was
                     Raise(ErrDeckEmpty)
                ELSE /\ deck' = drawn.cards
                     /\ OpenAuction(drawn.card[1])
                     /\ Return(drawn.card)
                     /\ UNCHANGED << players, money, current_turn >>

\* Game._require_auction raises: the phase is not AUCTION_BIDDING.
\* Faulty variant: the check is on current_auction instead of the phase.
NoAuctionObject == current_auction = None

\* As coded: self.phase is not GamePhase.AUCTION_BIDDING.
NoActiveAuction == phase # AUCTION_BIDDING

\* process_bid's last check: the amount is not strictly higher.
\* Faulty variant: a bid equal to highest_bid passes the check.
NotHigherTiesPass(amount, auction) == amount < auction.highest_bid

\* Faulty variant: only a positive amount is compared with highest_bid.
NotHigherPositiveOnly(amount, auction) ==
    amount > 0 /\ amount <= auction.highest_bid

\* As coded: amount <= auction.highest_bid.
NotHigher(amount, auction) == amount <= auction.highest_bid

\* process_bid's assignments to the auction.
\* Faulty variant: the bidder is not recorded.
PlaceBidAmountOnly(auction, player_index, amount) ==
    [ auction EXCEPT !.highest_bid = amount ]

\* Faulty variant: the amount is not recorded.
PlaceBidBidderOnly(auction, player_index, amount) ==
    [ auction EXCEPT !.highest_bidder_index = Some(player_index) ]

\* As coded.
PlaceBid(auction, player_index, amount) ==
    [ auction EXCEPT !.highest_bid = amount,
                     !.highest_bidder_index = Some(player_index) ]

\* Game.process_bid
\* Faulty variant: the amount is validated before the bidder.
ProcessBidAmountFirst(player_index, amount) ==
    /\ call' = Call("process_bid", Some(player_index))
    /\ drawn_cards' = drawn_cards
    /\ IF NoActiveAuction
       THEN Raise(ErrNoActiveAuction)
       ELSE IF amount % 10 # 0
       THEN Raise(ErrNotMultipleOf10)
       ELSE IF NotHigher(amount, Auction)
       THEN Raise(ErrNotHigher)
       ELSE IF ~ In(player_index, Auction.active_bidders)
       THEN Raise(ErrNotActiveBidder)
       ELSE /\ current_auction' =
                   Some(PlaceBid(Auction, player_index, amount))
            /\ Return(None)
            /\ UNCHANGED << deck, players, money, current_turn, phase >>

\* As coded.
ProcessBid(player_index, amount) ==
    /\ call' = Call("process_bid", Some(player_index))
    /\ drawn_cards' = drawn_cards
    /\ IF NoActiveAuction
       THEN Raise(ErrNoActiveAuction)
       ELSE IF ~ In(player_index, Auction.active_bidders)
       THEN Raise(ErrNotActiveBidder)
       ELSE IF amount % 10 # 0
       THEN Raise(ErrNotMultipleOf10)
       ELSE IF NotHigher(amount, Auction)
       THEN Raise(ErrNotHigher)
       ELSE /\ current_auction' =
                   Some(PlaceBid(Auction, player_index, amount))
            /\ Return(None)
            /\ UNCHANGED << deck, players, money, current_turn, phase >>

\* pass_auction's resolution check on the bidders left after the removal.
\* Faulty variant: the auction resolves one pass early.
LastTwoStanding(left) == Len(left) <= 2

\* As coded: len(auction.active_bidders) == 1.
LastBidderStanding(left) == Len(left) = 1

\* pass_auction's removal: active_bidders.remove(player_index).
\* Faulty variant: the passing player is not removed.
PassKeepsBidder(auction, player_index) == auction.active_bidders

\* As coded.
PassRemoves(auction, player_index) ==
    Remove(auction.active_bidders, player_index)

\* pass_auction's resolution, on the bidders left after the removal: the
\* one left becomes highest_bidder_index; highest_bid is not assigned.
\* Faulty variant: a highest bidder already recorded is kept.
LastBidderWinsUnlessOutbid(auction, left) ==
    [ auction EXCEPT
        !.active_bidders = left,
        !.highest_bidder_index = IF @ = None THEN Some(left[1]) ELSE @ ]

\* Faulty variant: the win is recorded as a fresh bid of 0.
LastBidderWinsAtZero(auction, left) ==
    [ auction EXCEPT
        !.active_bidders = left,
        !.highest_bid = 0,
        !.highest_bidder_index = Some(left[1]) ]

\* As coded: auction.highest_bidder_index = auction.active_bidders[0].
LastBidderWins(auction, left) ==
    [ auction EXCEPT
        !.active_bidders = left,
        !.highest_bidder_index = Some(left[1]) ]

\* Game.pass_auction
PassAuction(player_index) ==
    /\ call' = Call("pass_auction", Some(player_index))
    /\ drawn_cards' = drawn_cards
    /\ IF NoActiveAuction
       THEN Raise(ErrNoActiveAuction)
       ELSE IF ~ In(player_index, Auction.active_bidders)
       THEN Raise(ErrNotActiveBidder)
       ELSE LET left == PassRemoves(Auction, player_index)
            IN  /\ IF LastBidderStanding(left)
                   THEN /\ current_auction' =
                               Some(LastBidderWins(Auction, left))
                        /\ phase' = AUCTION_WON
                   ELSE /\ current_auction' =
                               Some([ Auction EXCEPT !.active_bidders = left ])
                        /\ phase' = phase
                /\ Return(None)
                /\ UNCHANGED << deck, players, money, current_turn >>

---------------------------------------------------------------------------
(* The orchestrator *)

\* game.current_turn = t, assigned by the caller before the turn's draw.
SetCurrentTurn(t) ==
    /\ phase = TURN_START
    /\ t # current_turn
    /\ call' = Call("current_turn=", Some(t))
    /\ current_turn' = t
    /\ Return(None)
    /\ UNCHANGED << deck, players, money, phase, current_auction,
                    drawn_cards >>

\* game.deck.draw(), called by the orchestrator on the session's deck.
DeckDraw ==
    /\ call' = Call("deck.draw", None)
    /\ deck' = Draw(deck).cards
    /\ drawn_cards' = drawn_cards \o Draw(deck).card
    /\ Return(Draw(deck).card)
    /\ UNCHANGED << players, money, current_turn, phase, current_auction >>

\* Player.remove_money: for card in cards: self.money.remove(card). The
\* hand the loop leaves and the exception it ends with: list.remove raises
\* at the first card that is not in the hand, after the removals made for
\* the cards before it.
RECURSIVE remove_money(_, _)
remove_money(hand, cards) ==
    IF cards = << >>
    THEN [ money |-> hand, raised |-> NoError ]
    ELSE IF ~ In(Head(cards), hand)
    THEN [ money |-> hand, raised |-> ErrNotInList ]
    ELSE remove_money(Remove(hand, Head(cards)), Tail(cards))

\* player.add_money(cards), called by the orchestrator on Player object p.
AddMoney(p, cards) ==
    /\ Len(money[p]) + Len(cards) <= MaxHand
    /\ call' = Call("add_money", Some(p))
    /\ money' = [ money EXCEPT ![p] = add_money(@, cards) ]
    /\ Return(None)
    /\ UNCHANGED << deck, players, current_turn, phase, current_auction,
                    drawn_cards >>

\* player.remove_money(cards), called by the orchestrator on Player object p.
RemoveMoney(p, cards) ==
    /\ call' = Call("remove_money", Some(p))
    /\ LET left == remove_money(money[p], cards)
       IN  /\ money' = [ money EXCEPT ![p] = left.money ]
           /\ raised' = left.raised
    /\ returned' = None
    /\ UNCHANGED << deck, players, current_turn, phase, current_auction,
                    drawn_cards >>

\* deck.shuffle(), called by the orchestrator on a deck it drives itself.
DeckShuffle ==
    /\ \/ Len(drawn_cards) < MaxShuffleWindow
       \/ Len(deck) <= MaxShuffleWindow + 1
    /\ call' = Call("deck.shuffle", None)
    /\ deck' \in Shuffle(deck)
    /\ Return(None)
    /\ UNCHANGED << players, money, current_turn, phase, current_auction,
                    drawn_cards >>

---------------------------------------------------------------------------
(* Specifications *)

\* The session driven through the operations of Game.
Next ==
    \/ DealStartingMoney
    \/ DrawForAuction
    \/ \E p \in PlayerInputs, a \in Amounts : ProcessBid(p, a)
    \/ \E p \in PlayerInputs : PassAuction(p)

Spec == Init /\ [][Next]_vars

\* The session with an orchestrator that also sets the turn pointer before
\* the draw, so that any player can be the auctioneer.
NextTurns ==
    \/ DrawForAuction
    \/ \E p \in PlayerInputs, a \in Amounts : ProcessBid(p, a)
    \/ \E p \in PlayerInputs : PassAuction(p)
    \/ \E t \in 0 .. (Len(players) - 1) : SetCurrentTurn(t)

SpecTurns == Init /\ [][NextTurns]_vars

\* The session driven through every operation of Game, with an
\* orchestrator that sets the turn pointer before the draw.
NextSession ==
    \/ DealStartingMoney
    \/ DrawForAuction
    \/ \E p \in PlayerInputs, a \in Amounts : ProcessBid(p, a)
    \/ \E p \in PlayerInputs : PassAuction(p)
    \/ \E t \in 0 .. (Len(players) - 1) : SetCurrentTurn(t)

SpecSession == Init /\ [][NextSession]_vars

\* A session of MIN_PLAYERS players whose orchestrator also draws cards off
\* the session's deck itself, so that the pile can run out.
InitExhaust == Init /\ Len(players) = MIN_PLAYERS

NextExhaust ==
    \/ DrawForAuction
    \/ DeckDraw
    \/ \E p \in PlayerInputs, a \in Amounts : ProcessBid(p, a)
    \/ \E p \in PlayerInputs : PassAuction(p)

SpecExhaust == InitExhaust /\ [][NextExhaust]_vars

\* Construction: the Player objects exist with empty hands, Game(roster) is
\* called until it succeeds, and the session is then set up and opened.
InitConstruct ==
    /\ deck = << >>
    /\ players = << >>
    /\ money = [ p \in PlayerObjects |-> << >> ]
    /\ current_turn = 0
    /\ phase = NoGame
    /\ current_auction = None
    /\ call = Call("Player", None)
    /\ raised = NoError
    /\ returned = None
    /\ drawn_cards = << >>

NextConstruct ==
    \/ \E roster \in Rosters : NewGame(roster)
    \/ Constructed /\ DealStartingMoney
    \/ Constructed /\ DrawForAuction

SpecConstruct == InitConstruct /\ [][NextConstruct]_vars

\* A Deck as Deck() builds it, not shuffled yet (held by a session of
\* MIN_PLAYERS that is left alone), driven through shuffle and draw.
InitDeck ==
    /\ deck = NewDeck
    /\ players = DistinctRoster(MIN_PLAYERS)
    /\ money = [ p \in 1 .. MIN_PLAYERS |-> << >> ]
    /\ current_turn = 0
    /\ phase = TURN_START
    /\ current_auction = None
    /\ call = Call("Deck", None)
    /\ raised = NoError
    /\ returned = None
    /\ drawn_cards = << >>

NextDeck ==
    \/ DeckShuffle
    \/ DeckDraw

SpecDeck == InitDeck /\ [][NextDeck]_vars

\* The ledgers of the players of a session of MIN_PLAYERS, driven by the
\* orchestrator through Player.add_money and Player.remove_money.
NextLedger ==
    \/ \E p \in DOMAIN money, cards \in CardLists : AddMoney(p, cards)
    \/ \E p \in DOMAIN money, cards \in CardLists : RemoveMoney(p, cards)

SpecLedger == InitExhaust /\ [][NextLedger]_vars

---------------------------------------------------------------------------
(* Properties *)

HasAuction == current_auction # None

\* The roster indices 0..n-1.
Indices == 0 .. (Len(players) - 1)

\* p took part in the auction and has passed.
HasPassed(p) ==
    /\ HasAuction
    /\ p \in Indices
    /\ p # Auction.auctioneer_index
    /\ ~ In(p, Auction.active_bidders)

\* The player index the step's call was given.
Caller == call'.player_index[1]

\* The step is a call of process_bid with amount a, by Caller.
BidStep(a) == call'.op = "process_bid" /\ ProcessBid(Caller, a)

\* The step is a call of pass_auction, by Caller.
PassStep == call'.op = "pass_auction" /\ PassAuction(Caller)

\* The step is a call process_bid(Caller, a) that returned normally.
BidAccepted(a) == BidStep(a) /\ raised' = NoError

\* The step is a call pass_auction(Caller) that returned normally.
PassAccepted == PassStep /\ raised' = NoError

\* C1: bid monotonicity. Every accepted bid is a multiple of 10, is
\* strictly greater than highest_bid (0 before the first accepted bid) and
\* becomes highest_bid, which nothing but an accepted bid changes, so that
\* highest_bid is always the previously accepted bid. A bid at or below
\* highest_bid, or not a multiple of 10, or from the auctioneer, or from a
\* player who has passed, raises and leaves the whole game state unchanged.
C1_BidMonotonicity ==
    [][ /\ \A a \in Amounts :
              BidStep(a) =>
                 /\ raised' = NoError =>
                       /\ HasAuction
                       /\ a % 10 = 0
                       /\ a > Auction.highest_bid
                       /\ Auction.highest_bid >= 0
                       /\ Auction'.highest_bid = a
                 /\ ( /\ HasAuction
                      /\ \/ a <= Auction.highest_bid
                         \/ a % 10 # 0
                         \/ Caller = Auction.auctioneer_index
                         \/ HasPassed(Caller) )
                    => ( raised' # NoError /\ UNCHANGED gameVars )
        /\ ( HasAuction /\ HasAuction'
             /\ Auction'.highest_bid # Auction.highest_bid )
           => \E a \in Amounts : BidAccepted(a)
        /\ ( ~ HasAuction /\ HasAuction' ) => Auction'.highest_bid = 0
      ]_vars

\* C1 witness: with highest_bid at 10, a bid that does not exceed it has
\* been rejected as not strictly higher.
C1_Witness ==
    /\ phase = AUCTION_BIDDING
    /\ Auction.highest_bid = 10
    /\ call.op = "process_bid"
    /\ raised = ErrNotHigher

\* C2: pass to resolution. An auction opens with N = n - 1 active bidders,
\* every accepted pass removes exactly one and nothing else changes their
\* number, so the k-th accepted pass leaves N - k. The phase becomes
\* AUCTION_WON exactly by the accepted pass that leaves one bidder (the
\* (N-1)-th) and by no other step; every earlier accepted pass leaves the
\* phase AUCTION_BIDDING; the resolving pass makes the one remaining index
\* highest_bidder_index, whoever held the highest bid.
C2_PassToResolution ==
    [][ /\ ( ~ HasAuction /\ HasAuction' )
           => Len(Auction'.active_bidders) = Len(players) - 1
        /\ PassAccepted =>
              /\ phase = AUCTION_BIDDING
              /\ Len(Auction'.active_bidders)
                    = Len(Auction.active_bidders) - 1
              /\ IF Len(Auction'.active_bidders) = 1
                 THEN /\ phase' = AUCTION_WON
                      /\ Auction'.highest_bidder_index
                            = Some(Auction'.active_bidders[1])
                      /\ In(Auction'.active_bidders[1],
                            Auction.active_bidders)
                      /\ Auction'.active_bidders[1] # Caller
                 ELSE phase' = AUCTION_BIDDING
        /\ ( HasAuction /\ HasAuction'
             /\ Len(Auction'.active_bidders) # Len(Auction.active_bidders) )
           => PassAccepted
        /\ ( phase # AUCTION_WON /\ phase' = AUCTION_WON )
           => ( PassAccepted /\ Len(Auction.active_bidders) = 2 )
      ]_vars

\* C2 witness: an auction of four players (N = 3) resolved by its second
\* pass, after bids up to 20, in favour of the one bidder left.
C2_Witness ==
    /\ Len(players) = 4
    /\ phase = AUCTION_WON
    /\ call.op = "pass_auction"
    /\ raised = NoError
    /\ Auction.highest_bid = 20
    /\ Auction.highest_bidder_index = Some(Auction.active_bidders[1])

\* C3: draw_for_auction in TURN_START with a non-empty deck removes the top
\* card only, returns it, and opens an auction on it with the turn player as
\* auctioneer, highest_bid 0, no highest bidder and every index 0..n-1 but
\* current_turn as active bidders in ascending order; the phase becomes
\* AUCTION_BIDDING.
C3_DrawOpensAuction ==
    [][ ( DrawForAuction /\ phase = TURN_START /\ deck # << >> )
        => /\ raised' = NoError
           /\ returned' = Some(deck[Len(deck)])
           /\ Len(deck') = Len(deck) - 1
           /\ \A i \in 1 .. Len(deck') : deck'[i] = deck[i]
           /\ HasAuction'
           /\ Auction'.card = deck[Len(deck)]
           /\ Auction'.auctioneer_index = current_turn
           /\ Auction'.highest_bid = 0
           /\ Auction'.highest_bidder_index = None
           /\ Len(Auction'.active_bidders) = Len(players) - 1
           /\ \A i \in Indices :
                 i # current_turn => In(i, Auction'.active_bidders)
           /\ ~ In(current_turn, Auction'.active_bidders)
           /\ \A i, j \in 1 .. Len(Auction'.active_bidders) :
                 i < j => Auction'.active_bidders[i]
                             < Auction'.active_bidders[j]
           /\ phase' = AUCTION_BIDDING
           /\ UNCHANGED << players, money, current_turn >>
      ]_vars

\* C3 witness: the auction just opened by player 2 of five, on the card
\* that was drawn, with bidders [0, 1, 3, 4].
C3_Witness ==
    /\ call.op = "draw_for_auction"
    /\ raised = NoError
    /\ phase = AUCTION_BIDDING
    /\ Len(deck) = Len(NewDeck) - 1
    /\ returned = Some(Auction.card)
    /\ Auction.auctioneer_index = 2
    /\ Auction.active_bidders = << 0, 1, 3, 4 >>

\* C4: an auction exists exactly when the phase is AUCTION_BIDDING or
\* AUCTION_WON; in TURN_START there is none.
C4_AuctionIffPhase ==
    /\ HasAuction <=> phase \in { AUCTION_BIDDING, AUCTION_WON }
    /\ phase = TURN_START => current_auction = None
    /\ Len(current_auction) <= 1

\* C4 witness: a resolved auction is still held by the session.
C4_Witness == phase = AUCTION_WON /\ HasAuction

\* C5: draw_for_auction outside TURN_START raises the phase error and
\* changes nothing: the deck, the existing auction and the phase stay.
C5_DrawWrongPhase ==
    [][ ( DrawForAuction /\ phase # TURN_START )
        => /\ raised' = ErrWrongPhase
           /\ returned' = None
           /\ deck' = deck
           /\ current_auction' = current_auction
           /\ phase' = phase
           /\ UNCHANGED gameVars
      ]_vars

\* C5 witness: a draw attempted on a resolved auction was refused, the one
\* drawn card still the only one gone.
C5_Witness ==
    /\ call.op = "draw_for_auction"
    /\ raised = ErrWrongPhase
    /\ phase = AUCTION_WON
    /\ Len(deck) = Len(NewDeck) - 1
    /\ Auction.highest_bid = 10

\* C6: draw_for_auction in TURN_START on an empty deck raises the
\* deck-empty error; the phase stays TURN_START, no auction is created and
\* the deck stays empty.
C6_DrawEmptyDeck ==
    [][ ( DrawForAuction /\ phase = TURN_START /\ deck = << >> )
        => /\ raised' = ErrDeckEmpty
           /\ returned' = None
           /\ phase' = TURN_START
           /\ current_auction' = None
           /\ deck' = << >>
           /\ UNCHANGED gameVars
      ]_vars

\* C6 witness: the draw refused on the pile the orchestrator has emptied.
C6_Witness ==
    /\ call.op = "draw_for_auction"
    /\ raised = ErrDeckEmpty
    /\ phase = TURN_START
    /\ deck = << >>
    /\ current_auction = None

\* C7: process_bid and pass_auction outside AUCTION_BIDDING raise the
\* no-active-auction error for every player index and amount and leave the
\* game state unchanged; so no bid or pass changes the winner, highest_bid
\* or active_bidders of a resolved auction.
C7_NoActiveAuction ==
    [][ ( phase # AUCTION_BIDDING /\ call'.op \in { "process_bid", "pass_auction" } )
        => /\ PassStep
              => ( raised' = ErrNoActiveAuction /\ UNCHANGED gameVars )
           /\ \A a \in Amounts :
                 BidStep(a)
                 => ( raised' = ErrNoActiveAuction /\ UNCHANGED gameVars )
      ]_vars

\* C7 witness: the winner of a resolved auction bid again and was refused.
C7_Witness ==
    /\ phase = AUCTION_WON
    /\ call = Call("process_bid", Some(Auction.active_bidders[1]))
    /\ raised = ErrNoActiveAuction
    /\ Auction.highest_bidder_index = Some(Auction.active_bidders[1])

\* C8: an accepted process_bid(p, a) sets highest_bid to a and
\* highest_bidder_index to p and changes nothing else; no call of
\* process_bid, accepted or not, changes the phase.
C8_BidFrame ==
    [][ \A a \in Amounts :
           /\ ( raised' = NoError /\ BidStep(a) )
              => /\ Auction'.highest_bid = a
                 /\ Auction'.highest_bidder_index = Some(Caller)
                 /\ phase = AUCTION_BIDDING
                 /\ phase' = AUCTION_BIDDING
                 /\ Auction'.active_bidders = Auction.active_bidders
                 /\ Auction'.card = Auction.card
                 /\ Auction'.auctioneer_index = Auction.auctioneer_index
                 /\ Len(current_auction') = 1
                 /\ UNCHANGED << deck, current_turn, players, money >>
           /\ ( phase' # phase ) => ~ BidStep(a)
      ]_vars

\* C8 witness: an accepted bid of 20, recorded with its bidder, the auction
\* still open with all its bidders.
C8_Witness ==
    /\ phase = AUCTION_BIDDING
    /\ call.op = "process_bid"
    /\ raised = NoError
    /\ Auction.highest_bid = 20
    /\ Auction.highest_bidder_index = call.player_index
    /\ Len(Auction.active_bidders) = Len(players) - 1

\* C9: the auctioneer is never among the active bidders, and every
\* process_bid (for any amount) or pass_auction made with the auctioneer's
\* index raises and leaves the game state unchanged.
C9_AuctioneerExcluded ==
    [][ /\ HasAuction
           => /\ ~ In(Auction.auctioneer_index, Auction.active_bidders)
              /\ ( PassStep /\ Caller = Auction.auctioneer_index )
                 => ( raised' # NoError /\ UNCHANGED gameVars )
              /\ \A a \in Amounts :
                    ( call' = Call("process_bid", Some(Auction.auctioneer_index))
                      /\ BidStep(a) )
                    => ( raised' # NoError /\ UNCHANGED gameVars )
        /\ HasAuction'
           => ~ In(Auction'.auctioneer_index, Auction'.active_bidders)
      ]_vars

\* C9 witness: the auctioneer, player 1, tried to pass in the open auction
\* and was refused as no active bidder.
C9_Witness ==
    /\ phase = AUCTION_BIDDING
    /\ Auction.auctioneer_index = 1
    /\ call = Call("pass_auction", Some(Auction.auctioneer_index))
    /\ raised = ErrNotActiveBidder

C13_WinWithoutBidding ==
    [][ ( PassAccepted /\ phase' = AUCTION_WON )
        => /\ Len(Auction'.active_bidders) = 1
           /\ Auction'.highest_bidder_index
                 = Some(Auction'.active_bidders[1])
           /\ Auction'.active_bidders[1] # Caller
           /\ Auction'.highest_bid = Auction.highest_bid
           /\ Auction.highest_bidder_index = None
                 => Auction'.highest_bid = 0
      ]_vars

\* C13 witness: an auction won at highest_bid 0: nobody bid, and the last
\* player not to pass is recorded as the highest bidder.
C13_Witness ==
    /\ phase = AUCTION_WON
    /\ call.op = "pass_auction"
    /\ raised = NoError
    /\ Auction.highest_bid = 0
    /\ Auction.highest_bidder_index = Some(Auction.active_bidders[1])

\* C11: no rejected call mutates state partially: a remove_money(cards)
\* that raises because one of the requested cards is not held leaves the
\* player's hand, and every other hand, exactly as it was before the call.
C11_RejectedRemoveLeavesHand ==
    [][ \A p \in DOMAIN money, cards \in CardLists :
           ( call'.op = "remove_money"
             /\ RemoveMoney(p, cards)
             /\ raised' # NoError )
           => money' = money
      ]_vars

\* C12 as claimed: process_bid by an active bidder during AUCTION_BIDDING
\* with an amount that is not a positive multiple of 10 (0 and -10
\* included) is rejected with the invalid-amount error.
C12_NonPositiveIsInvalidAmount ==
    [][ \A a \in Amounts :
           ( /\ call'.op = "process_bid"
             /\ phase = AUCTION_BIDDING
             /\ In(Caller, Auction.active_bidders)
             /\ ~ ( a > 0 /\ a % 10 = 0 )
             /\ BidStep(a) )
           => raised' = ErrNotMultipleOf10
      ]_vars

\* C12 as amended: process_bid by an active bidder during AUCTION_BIDDING
\* with an amount that is not a multiple of 10 is rejected with the
\* invalid-amount error; with 0 or a negative multiple of 10 it is rejected
\* too, but with the too-low error. Neither changes the game state.
C12_InvalidAmount ==
    [][ \A a \in Amounts :
           ( /\ call'.op = "process_bid"
             /\ phase = AUCTION_BIDDING
             /\ In(Caller, Auction.active_bidders)
             /\ ~ ( a > 0 /\ a % 10 = 0 )
             /\ BidStep(a) )
           => /\ raised' = IF a % 10 # 0 THEN ErrNotMultipleOf10
                                         ELSE ErrNotHigher
              /\ UNCHANGED gameVars
      ]_vars

\* C12 witness: with highest_bid still 0, an active bidder's amount was
\* rejected as too low: a multiple of 10 that is not positive.
C12_Witness ==
    /\ phase = AUCTION_BIDDING
    /\ Auction.highest_bid = 0
    /\ call.op = "process_bid"
    /\ In(call.player_index[1], Auction.active_bidders)
    /\ raised = ErrNotHigher

\* C14: Game(roster) succeeds exactly when the roster has 3, 4 or 5
\* entries, and then the game has that roster, a deck of 40 cards,
\* current_turn 0, phase TURN_START and no auction; for every other size it
\* raises the player-count error and no game exists.
C14_Construction ==
    [][ \A roster \in Rosters :
           ( call'.op = "__init__" /\ NewGame(roster) )
           => IF Len(roster) \in { 3, 4, 5 }
              THEN /\ raised' = NoError
                   /\ Constructed'
                   /\ players' = roster
                   /\ Len(deck') = 40
                   /\ current_turn' = 0
                   /\ phase' = TURN_START
                   /\ current_auction' = None
              ELSE /\ raised' = ErrPlayerCount(Len(roster))
                   /\ ~ Constructed'
                   /\ UNCHANGED gameVars
      ]_vars

\* C14 witness: the construction refused for a roster of six.
C14_Witness ==
    /\ call.op = "__init__"
    /\ raised = ErrPlayerCount(6)
    /\ ~ Constructed

\* The roster holds no Player object at two indices.
DistinctRecords(roster) ==
    \A i, j \in 1 .. Len(roster) : i # j => roster[i] # roster[j]

\* C15: Game(roster) fails when the roster of 3 to 5 entries holds the same
\* player record at two indices.
C15_DuplicateRecordRejected ==
    [][ \A roster \in Rosters :
           ( /\ call'.op = "__init__"
             /\ Len(roster) \in { 3, 4, 5 }
             /\ ~ DistinctRecords(roster)
             /\ NewGame(roster) )
           => ( raised' # NoError /\ ~ Constructed' )
      ]_vars

\* The number of cards of denomination v in the hand.
CountOf(hand, v) == Cardinality({ i \in 1 .. Len(hand) : hand[i] = v })

\* C16: one call of deal_starting_money adds to the hand of every player of
\* the roster exactly seven money cards (two of 0, four of 10, one of 50;
\* 90 in total) and touches nothing else; it is not idempotent: after k
\* calls every player holds 7k cards worth 90k.
C16_DealAddsSeven ==
    [][ ( call'.op = "deal_starting_money" /\ DealStartingMoney )
        => /\ \A i \in 1 .. Len(players) :
                 LET before == money[players[i]]
                     after == money'[players[i]]
                 IN  /\ Len(after) = Len(before) + 7
                     /\ total_money(after) = total_money(before) + 90
                     /\ CountOf(after, 0) = CountOf(before, 0) + 2
                     /\ CountOf(after, 10) = CountOf(before, 10) + 4
                     /\ CountOf(after, 50) = CountOf(before, 50) + 1
                     /\ SubSeq(after, 1, Len(before)) = before
           /\ \E k \in 1 .. (MaxDeals + 1) :
                 \A i \in 1 .. Len(players) :
                    /\ Len(money'[players[i]]) = 7 * k
                    /\ total_money(money'[players[i]]) = 90 * k
           /\ raised' = NoError
           /\ UNCHANGED << deck, players, current_turn, phase,
                           current_auction >>
      ]_vars

\* The animal kinds.
Kinds == { AnimalType[i] : i \in 1 .. Len(AnimalType) }

\* The step is a call of deck.draw.
DeckDrawStep == call'.op = "deck.draw" /\ DeckDraw

\* The step is a call of deck.shuffle.
DeckShuffleStep == call'.op = "deck.shuffle" /\ DeckShuffle

\* C17: a fresh Deck, shuffled or not, yields exactly 40 cards, 4 of each
\* of the 10 animal kinds: every draw from a non-empty pile returns a card
\* and reduces remaining by one, and once 40 cards are drawn the pile is
\* empty; the 41st and every later draw returns None without raising and
\* leaves the pile empty.
C17_FortyDraws ==
    [][ /\ DeckDrawStep
           => /\ raised' = NoError
              /\ IF deck # << >>
                 THEN /\ returned' # None
                      /\ returned'[1] \in Kinds
                      /\ Len(deck') = Len(deck) - 1
                      /\ Len(drawn_cards') = Len(drawn_cards) + 1
                 ELSE /\ returned' = None
                      /\ deck' = << >>
                      /\ drawn_cards' = drawn_cards
                      /\ Len(drawn_cards) = 40
        /\ Len(deck) + Len(drawn_cards) = 40
        /\ Len(deck') + Len(drawn_cards') = 40
        /\ Cardinality(Kinds) = 10
        /\ deck' = << >>
           => \A kind \in Kinds : CountOf(drawn_cards', kind) = 4
      ]_vars

\* C17 witness: the draw after the fortieth returned None on the empty pile.
C17_Witness ==
    /\ call.op = "deck.draw"
    /\ raised = NoError
    /\ returned = None
    /\ deck = << >>
    /\ Len(drawn_cards) = 40

\* C18: after any sequence of shuffles and draws the cards in the pile
\* together with the cards drawn are the 40 starting cards, none lost or
\* duplicated; a draw removes exactly the last card of the pile and leaves
\* the order of the others unchanged; a shuffle changes only the order.
C18_CardsConserved ==
    [][ /\ \A kind \in Kinds :
              CountOf(deck', kind) + CountOf(drawn_cards', kind)
                 = CountOf(NewDeck, kind)
        /\ Len(deck') + Len(drawn_cards') = Len(NewDeck)
        /\ ( DeckDrawStep /\ deck # << >> )
           => /\ deck = deck' \o returned'
              /\ returned' = Some(deck[Len(deck)])
              /\ drawn_cards' = drawn_cards \o returned'
        /\ DeckShuffleStep
           => /\ Len(deck') = Len(deck)
              /\ \A kind \in Kinds :
                    CountOf(deck', kind) = CountOf(deck, kind)
              /\ drawn_cards' = drawn_cards
              /\ returned' = None
      ]_vars

\* C18 witness: a shuffle, after 38 draws from a shuffled deck, that has
\* swapped the two cards left.
C18_Witness ==
    /\ call.op = "deck.shuffle"
    /\ Len(drawn_cards) = 38
    /\ drawn_cards[38] = "Goose"
    /\ deck = << "Goose", "Rooster" >>

\* C19: process_bid validates the phase, then the bidder's eligibility, then
\* the multiple of 10, then strictly-higher, and raises the error of the
\* first check that fails: the auctioneer bidding 15 is refused as no
\* active bidder, an active bidder bidding 5 over a highest_bid of 10 as
\* not a multiple of 10; and no rejected call changes the game state.
C19_ValidationOrder ==
    [][ call'.op = "process_bid"
        => \A a \in Amounts :
              BidStep(a)
              => /\ raised' =
                       IF phase # AUCTION_BIDDING
                       THEN ErrNoActiveAuction
                       ELSE IF ~ In(Caller, Auction.active_bidders)
                       THEN ErrNotActiveBidder
                       ELSE IF a % 10 # 0
                       THEN ErrNotMultipleOf10
                       ELSE IF a <= Auction.highest_bid
                       THEN ErrNotHigher
                       ELSE NoError
                 /\ raised' # NoError => UNCHANGED gameVars
                 /\ ( /\ phase = AUCTION_BIDDING
                      /\ Caller = Auction.auctioneer_index
                      /\ a = 15 )
                    => raised' = ErrNotActiveBidder
                 /\ ( /\ phase = AUCTION_BIDDING
                      /\ In(Caller, Auction.active_bidders)
                      /\ Auction.highest_bid = 10
                      /\ a = 5 )
                    => raised' = ErrNotMultipleOf10
      ]_vars

\* C19 witness: over a highest_bid of 10, an active bidder's amount was
\* refused as not a multiple of 10, whether or not it was also too low.
C19_Witness ==
    /\ phase = AUCTION_BIDDING
    /\ Auction.highest_bid = 10
    /\ call.op = "process_bid"
    /\ In(call.player_index[1], Auction.active_bidders)
    /\ raised = ErrNotMultipleOf10

\* C20: the operations of Game change the phase only from TURN_START to
\* AUCTION_BIDDING, by a successful draw_for_auction, and from
\* AUCTION_BIDDING to AUCTION_WON, by a resolving pass_auction: the phase
\* never returns to TURN_START and AUCTION_WON is absorbing; so they draw
\* at most one card: the deck holds 40 cards in TURN_START and 39 after.
C20_PhaseOrder ==
    [][ /\ phase' # phase
           => \/ /\ phase = TURN_START
                 /\ phase' = AUCTION_BIDDING
                 /\ call'.op = "draw_for_auction"
                 /\ raised' = NoError
              \/ /\ phase = AUCTION_BIDDING
                 /\ phase' = AUCTION_WON
                 /\ PassAccepted
                 /\ Len(Auction'.active_bidders) = 1
        /\ phase' = TURN_START => phase = TURN_START
        /\ phase = AUCTION_WON => phase' = AUCTION_WON
        /\ deck' # deck
           => /\ phase = TURN_START
              /\ call'.op = "draw_for_auction"
              /\ deck' = Pop(deck)
        /\ Len(deck) = IF phase = TURN_START THEN 40 ELSE 39
        /\ Len(deck') = IF phase' = TURN_START THEN 40 ELSE 39
        /\ Len(drawn_cards') <= 1
      ]_vars

\* C20 witness: on an auction won at 20 a further draw was refused; one
\* card has been drawn and 39 are left.
C20_Witness ==
    /\ phase = AUCTION_WON
    /\ call.op = "draw_for_auction"
    /\ raised = ErrWrongPhase
    /\ Auction.highest_bid = 20
    /\ Len(deck) = 39
    /\ Len(drawn_cards) = 1

\* C21: whenever there is an auction, active_bidders is not empty and holds
\* distinct roster indices in ascending order, between 1 and n - 1 of them;
\* it has exactly one member if and only if the phase is AUCTION_WON and at
\* least two if and only if the phase is AUCTION_BIDDING.
C21_ActiveBidders ==
    HasAuction
    => LET bidders == Auction.active_bidders
       IN  /\ Len(bidders) >= 1
           /\ Len(bidders) <= Len(players) - 1
           /\ \A i \in 1 .. Len(bidders) : bidders[i] \in Indices
           /\ \A i, j \in 1 .. Len(bidders) :
                 i < j => bidders[i] < bidders[j]
           /\ Len(bidders) = 1 <=> phase = AUCTION_WON
           /\ Len(bidders) >= 2 <=> phase = AUCTION_BIDDING

\* C21 witness: player 2's auction among five, still open after players 1
\* and 4 have passed.
C21_Witness ==
    /\ phase = AUCTION_BIDDING
    /\ Len(players) = 5
    /\ Auction.auctioneer_index = 2
    /\ Auction.active_bidders = << 0, 3 >>

\* C22: whenever there is an auction, highest_bid is a non-negative
\* multiple of 10; while the phase is AUCTION_BIDDING highest_bidder_index
\* is None if and only if highest_bid is 0; in AUCTION_WON
\* highest_bidder_index is present, is the one member of active_bidders
\* and is not the auctioneer.
C22_HighestBid ==
    HasAuction
    => /\ Auction.highest_bid >= 0
       /\ Auction.highest_bid % 10 = 0
       /\ phase = AUCTION_BIDDING
          => ( Auction.highest_bidder_index = None
               <=> Auction.highest_bid = 0 )
       /\ phase = AUCTION_WON
          => /\ Auction.highest_bidder_index # None
             /\ Auction.active_bidders
                   = << Auction.highest_bidder_index[1] >>
             /\ Auction.highest_bidder_index[1] # Auction.auctioneer_index

\* C22 witness: player 1's auction won at 10 by the one bidder left.
C22_Witness ==
    /\ phase = AUCTION_WON
    /\ Auction.auctioneer_index = 1
    /\ Auction.highest_bid = 10
    /\ Auction.active_bidders = Auction.highest_bidder_index

\* C23: pass_auction never changes highest_bid and changes
\* highest_bidder_index only when the pass resolves the auction: a pass by
\* the recorded highest bidder that leaves two or more active bidders is
\* accepted and leaves highest_bid and highest_bidder_index as they were;
\* so while the phase is AUCTION_BIDDING the recorded highest bidder is
\* None, an active bidder, or a player who has passed.
C23_PassFrame ==
    [][ /\ ( PassStep /\ HasAuction )
           => /\ Auction'.highest_bid = Auction.highest_bid
              /\ Auction'.highest_bidder_index # Auction.highest_bidder_index
                 => /\ raised' = NoError
                    /\ phase = AUCTION_BIDDING
                    /\ phase' = AUCTION_WON
              /\ ( /\ phase = AUCTION_BIDDING
                   /\ Auction.highest_bidder_index = Some(Caller)
                   /\ In(Caller, Auction.active_bidders)
                   /\ Len(Auction.active_bidders) >= 3 )
                 => /\ raised' = NoError
                    /\ phase' = AUCTION_BIDDING
                    /\ Auction'.highest_bid = Auction.highest_bid
                    /\ Auction'.highest_bidder_index = Some(Caller)
                    /\ ~ In(Caller, Auction'.active_bidders)
        /\ phase' = AUCTION_BIDDING
           => \/ Auction'.highest_bidder_index = None
              \/ \E q \in PlayerInputs :
                    /\ Auction'.highest_bidder_index = Some(q)
                    /\ In(q, Auction'.active_bidders) \/ HasPassed(q)'
      ]_vars

\* C23 witness: the player who holds the highest bid, 10, has passed, and
\* the auction is still open with that bid and bidder on record.
C23_Witness ==
    /\ phase = AUCTION_BIDDING
    /\ call.op = "pass_auction"
    /\ raised = NoError
    /\ Auction.highest_bid = 10
    /\ Auction.highest_bidder_index = call.player_index
    /\ ~ In(call.player_index[1], Auction.active_bidders)

\* The operations of Game.
GameOperations ==
    { "deal_starting_money", "draw_for_auction", "process_bid",
      "pass_auction" }

\* C24: no operation of Game, accepted or rejected, changes current_turn or
\* the roster, and once an auction is opened it stays, with the same card
\* and auctioneer_index; hence, the orchestrator setting the turn pointer
\* only before the draw, auctioneer_index equals current_turn whenever
\* there is an auction.
C24_TurnAndAuctioneer ==
    [][ /\ call'.op \in GameOperations
           => /\ current_turn' = current_turn
              /\ players' = players
              /\ Len(players') = Len(players)
        /\ HasAuction
           => /\ HasAuction'
              /\ Auction'.card = Auction.card
              /\ Auction'.auctioneer_index = Auction.auctioneer_index
        /\ HasAuction' => Auction'.auctioneer_index = current_turn'
      ]_vars

\* C24 witness: money dealt during player 2's resolved auction; the turn
\* pointer and the auctioneer are still 2.
C24_Witness ==
    /\ phase = AUCTION_WON
    /\ call.op = "deal_starting_money"
    /\ raised = NoError
    /\ current_turn = 2
    /\ Auction.auctioneer_index = 2

===========================================================================
